---- MODULE Spec2Model ----
(***************************************************************************)
(* Model of class Diffs (include/dai/util.h), the trailing-window maximum  *)
(* tracker of libDAI.  Diffs is a std::vector<Real> with a capacity        *)
(* _maxsize, a default value _def and two iterators, _pos (write cursor)   *)
(* and _maxpos (cursor of the tracked maximum).                            *)
(*                                                                         *)
(* Iterators are modelled by their offset from begin(): begin() is 0 and   *)
(* end() is size().  The element an iterator with offset i designates is   *)
(* history[i + 1] (TLA+ sequences are 1-based); an offset outside          *)
(* 0 .. size()-1 designates no element, and dereferencing it is undefined  *)
(* behaviour, recorded in the variable ub.                                 *)
(***************************************************************************)
EXTENDS Integers, Sequences, FiniteSets

\* ------------------------------------------------------------- bounds
\* Largest capacity a monitor is constructed with.
MaxCap == 3
\* Largest number of push calls in one behaviour.
MaxPushes == 5
\* The samples pushed (Real values; only their order matters to Diffs).
Values == {1, 2, 4, 5, 9}
\* The default values a monitor is constructed with: one that is never
\* pushed and one that is also a sample.
Defaults == {-1, 4}
\* The maxsize arguments of the constructor, invalid ones (< 1) included.
CtorSizes == -1 .. MaxCap

VARIABLES
    alive,      \* a Diffs object exists (construction returned normally)
    error,      \* the exception construction ended with, "none" if none
    _maxsize,   \* Diffs::_maxsize
    _def,       \* Diffs::_def
    history,    \* the elements of the std::vector<Real> base object
    _pos,       \* Diffs::_pos, as an offset from begin()
    _maxpos,    \* Diffs::_maxpos, as an offset from begin()
    op,         \* the last member function called: "none", "new", "push", "maxDiff"
    ret,        \* <<v>> when the last call returned the Real v, <<>> when it returned nothing
    ub,         \* an iterator designating no element has been dereferenced
    pushed,     \* every argument of push so far, in call order (history variable)
    args,       \* the arguments of the constructor call (history variable)
    log         \* one record per push call, in call order (history variable):
                \* whether it ran the max_element rescan, and _pos and
                \* _maxpos as it left them

vars == <<alive, error, _maxsize, _def, history, _pos, _maxpos, op, ret, ub, pushed, args, log>>

\* ------------------------------------------------------------- Real
\* Mutant of Less: the comparison the wrong way round.
Less_Flipped(a, b) == a > b

\* The Real value NaN (a quiet NaN of double), kept apart from every sample
\* and default value.
NaN == 0

\* operator< on Real (double): false whenever an operand is NaN.
Less(a, b) == a # NaN /\ b # NaN /\ a < b

\* Mutant of Greater: a value equal to the tracked maximum counts as greater.
Greater_OrEqual(a, b) == a >= b

\* operator> on Real (double): false whenever an operand is NaN.
Greater(a, b) == a # NaN /\ b # NaN /\ a > b

\* ------------------------------------------------------------- std::vector
\* The iterator with offset i designates an element of h.
InRange(h, i) == i >= 0 /\ i < Len(h)

\* *it for the iterator with offset i.
At(h, i) == h[i + 1]

\* *it = x for the iterator with offset i.
Store(h, i, x) == [h EXCEPT ![i + 1] = x]

\* std::max_element(first, last) restricted to offsets k .. Len(h)-1, with
\* `largest` the offset of the largest element seen so far: the first of the
\* largest elements wins, as a later one replaces it only when strictly larger.
RECURSIVE max_scan(_, _, _)
max_scan(h, largest, k) ==
    IF k >= Len(h) THEN largest
    ELSE max_scan(h, IF Less(At(h, largest), At(h, k)) THEN k ELSE largest, k + 1)

\* Mutant of max_element: the last of the largest elements wins (the scan
\* replaces `largest` on equality as well).
max_element_Last(h) ==
    IF Len(h) = 0 THEN 0
    ELSE CHOOSE i \in 0 .. Len(h) - 1 :
            \A j \in 0 .. Len(h) - 1 :
                /\ ~Less(At(h, i), At(h, j))
                /\ j > i => Less(At(h, j), At(h, i))

\* std::max_element(begin(), end()); end() (= 0) on an empty range.
max_element(h) == IF Len(h) = 0 THEN 0 ELSE max_scan(h, 0, 1)

\* ------------------------------------------------------------- Diffs
\* Diffs::Diffs(long maxsize, Real def).  _maxsize(maxsize) converts the long
\* to size_t, so a negative maxsize becomes a value of at least 2^63, above
\* std::vector<Real>::max_size(): reserve() throws std::length_error and no
\* object is constructed.  Any other maxsize, 0 included, is accepted.
Constructor(maxsize, def) ==
    IF maxsize < 0
    THEN [alive |-> FALSE, error |-> "length_error", maxsize |-> 0, def |-> def,
          hist |-> <<>>, pos |-> 0, maxpos |-> 0]
    ELSE [alive |-> TRUE, error |-> "none", maxsize |-> maxsize, def |-> def,
          hist |-> <<>>, pos |-> 0, maxpos |-> 0]

\* Mutant of maxDiff: the window counts as full one sample late
\* (size() <= _maxsize instead of size() < _maxsize).
maxDiff_OffByOne(h, maxsize, def, m) ==
    IF Len(h) <= maxsize
    THEN [val |-> def, oob |-> FALSE]
    ELSE IF InRange(h, m)
         THEN [val |-> At(h, m), oob |-> FALSE]
         ELSE [val |-> def, oob |-> TRUE]

\* Diffs::maxDiff(): [val |-> the value returned, oob |-> *_maxpos was
\* evaluated with _maxpos designating no element].
maxDiff(h, maxsize, def, m) ==
    IF Len(h) < maxsize
    THEN [val |-> def, oob |-> FALSE]
    ELSE IF InRange(h, m)
         THEN [val |-> At(h, m), oob |-> FALSE]
         ELSE [val |-> def, oob |-> TRUE]

\* Diffs::maxSize().
maxSize(maxsize) == maxsize

\* The result of a push that dereferenced an iterator designating no element.
Undefined(h, p, m) ==
    [hist |-> h, pos |-> p, maxpos |-> m, oob |-> TRUE, rescan |-> FALSE]

\* Mutant of pushFilling: _maxpos also moves to a new element that equals
\* *_maxpos (<= instead of <).
pushFilling_MovesOnEqual(h, m, x) ==
    LET h1 == Append(h, x)
        p1 == Len(h1)
    IN  IF Len(h1) > 1
        THEN IF ~InRange(h1, m)
             THEN Undefined(h1, p1, m)
             ELSE [hist |-> h1, pos |-> p1,
                   maxpos |-> IF ~Less(At(h1, Len(h1) - 1), At(h1, m))
                              THEN Len(h1) - 1 ELSE m,
                   oob |-> FALSE, rescan |-> FALSE]
        ELSE [hist |-> h1, pos |-> p1, maxpos |-> 0, oob |-> FALSE, rescan |-> FALSE]

\* push, branch size() < _maxsize: append x, _pos = end(), and move _maxpos
\* to the new element when it is strictly larger than *_maxpos (to begin()
\* when it is the first element).
pushFilling(h, m, x) ==
    LET h1 == Append(h, x)
        p1 == Len(h1)
    IN  IF Len(h1) > 1
        THEN IF ~InRange(h1, m)
             THEN Undefined(h1, p1, m)
             ELSE [hist |-> h1, pos |-> p1,
                   maxpos |-> IF Less(At(h1, m), At(h1, Len(h1) - 1))
                              THEN Len(h1) - 1 ELSE m,
                   oob |-> FALSE, rescan |-> FALSE]
        ELSE [hist |-> h1, pos |-> p1, maxpos |-> 0, oob |-> FALSE, rescan |-> FALSE]

\* Mutant of wrap: _pos is never taken back to begin().
wrap_Never(h, p) == p

\* push, full branch, first statement: if( _pos == end() ) _pos = begin().
wrap(h, p) == IF p = Len(h) THEN 0 ELSE p

\* Mutant of pushFull: the slot of the tracked maximum is overwritten
\* without the max_element rescan.
pushFull_NoRescan(h, p, m, x) ==
    IF ~InRange(h, m) \/ ~InRange(h, p)
    THEN Undefined(h, p, m)
    ELSE [hist |-> Store(h, p, x), pos |-> p + 1,
          maxpos |-> IF m # p /\ Greater(x, At(h, m)) THEN p ELSE m,
          oob |-> FALSE, rescan |-> FALSE]

\* Mutant of pushFull: _pos is not advanced after the write (*_pos = x).
pushFull_NoAdvance(h, p, m, x) ==
    IF ~InRange(h, m) \/ ~InRange(h, p)
    THEN Undefined(h, p, m)
    ELSE IF m = p
         THEN [hist |-> Store(h, p, x), pos |-> p,
               maxpos |-> max_element(Store(h, p, x)), oob |-> FALSE,
               rescan |-> TRUE]
         ELSE [hist |-> Store(h, p, x), pos |-> p,
               maxpos |-> IF Greater(x, At(h, m)) THEN p ELSE m,
               oob |-> FALSE, rescan |-> FALSE]

\* Mutant of pushFull: every push on a full window rescans.
pushFull_AlwaysRescan(h, p, m, x) ==
    IF ~InRange(h, p)
    THEN Undefined(h, p, m)
    ELSE [hist |-> Store(h, p, x), pos |-> p + 1,
          maxpos |-> max_element(Store(h, p, x)), oob |-> FALSE,
          rescan |-> TRUE]

\* Mutant of pushFull: the rescan runs before the new value is stored.
pushFull_RescanBeforeStore(h, p, m, x) ==
    IF ~InRange(h, m) \/ ~InRange(h, p)
    THEN Undefined(h, p, m)
    ELSE IF m = p
         THEN [hist |-> Store(h, p, x), pos |-> p + 1,
               maxpos |-> max_element(h), oob |-> FALSE,
               rescan |-> TRUE]
         ELSE [hist |-> Store(h, p, x), pos |-> p + 1,
               maxpos |-> IF Greater(x, At(h, m)) THEN p ELSE m,
               oob |-> FALSE, rescan |-> FALSE]

\* push, full branch after the wrap of _pos: overwrite *_pos and advance
\* _pos; rescan with max_element when the overwritten slot is *_maxpos, else
\* move _maxpos to the written slot when x > *_maxpos.
pushFull(h, p, m, x) ==
    IF m = p
    THEN IF ~InRange(h, p)
         THEN Undefined(h, p, m)
         ELSE [hist |-> Store(h, p, x), pos |-> p + 1,
               maxpos |-> max_element(Store(h, p, x)), oob |-> FALSE,
               rescan |-> TRUE]
    ELSE IF ~InRange(h, m) \/ ~InRange(h, p)
         THEN Undefined(h, p, m)
         ELSE [hist |-> Store(h, p, x), pos |-> p + 1,
               maxpos |-> IF Greater(x, At(h, m)) THEN p ELSE m,
               oob |-> FALSE, rescan |-> FALSE]

\* Mutant of push: the overwriting branch is taken as well when size()
\* equals _maxsize - 1, so the last slot is never appended.
push_NeverFull(h, maxsize, p, m, x) ==
    IF Len(h) + 1 < maxsize
    THEN pushFilling(h, m, x)
    ELSE pushFull(h, wrap(h, p), m, x)

\* Mutant of push: the appending branch is taken as well when size()
\* equals _maxsize, so the vector grows past its capacity.
push_Overfill(h, maxsize, p, m, x) ==
    IF Len(h) <= maxsize
    THEN pushFilling(h, m, x)
    ELSE pushFull(h, wrap(h, p), m, x)

\* Diffs::push(Real x).
push(h, maxsize, p, m, x) ==
    IF Len(h) < maxsize
    THEN pushFilling(h, m, x)
    ELSE pushFull(h, wrap(h, p), m, x)

\* ------------------------------------------------------------- behaviours
\* The state the constructor call Diffs(n, d) leaves.
Constructed(n, d, c) ==
    /\ args = [maxsize |-> n, def |-> d]
    /\ alive = c.alive
    /\ error = c.error
    /\ _maxsize = c.maxsize
    /\ _def = c.def
    /\ history = c.hist
    /\ _pos = c.pos
    /\ _maxpos = c.maxpos
    /\ op = "new"
    /\ ret = <<>>
    /\ ub = FALSE
    /\ pushed = <<>>
    /\ log = <<>>

\* A validly constructed monitor: Diffs(maxsize, def) with maxsize >= 1.
Init == \E n \in 1 .. MaxCap, d \in Defaults : Constructed(n, d, Constructor(n, d))

\* Mutant of Push: a push on a full window enlarges the capacity instead of
\* keeping it (as if the vector were left to grow).
Push_GrowsCapacity ==
    /\ alive /\ ~ub
    /\ Len(pushed) < MaxPushes
    /\ \E x \in Values :
        LET r == push(history, _maxsize, _pos, _maxpos, x)
        IN  /\ history' = r.hist
            /\ _pos' = r.pos
            /\ _maxpos' = r.maxpos
            /\ ub' = r.oob
            /\ pushed' = Append(pushed, x)
            /\ log' = Append(log, [rescan |-> r.rescan, pos |-> r.pos,
                                    maxpos |-> r.maxpos])
    /\ op' = "push"
    /\ ret' = <<>>
    /\ _maxsize' = IF Len(history) < _maxsize THEN _maxsize ELSE _maxsize + 1
    /\ UNCHANGED <<alive, error, _def, args>>

\* A call of push(x).  After undefined behaviour nothing is known about the
\* program, so no further call is modelled.
Push ==
    /\ alive /\ ~ub
    /\ Len(pushed) < MaxPushes
    /\ \E x \in Values :
        LET r == push(history, _maxsize, _pos, _maxpos, x)
        IN  /\ history' = r.hist
            /\ _pos' = r.pos
            /\ _maxpos' = r.maxpos
            /\ ub' = r.oob
            /\ pushed' = Append(pushed, x)
            /\ log' = Append(log, [rescan |-> r.rescan, pos |-> r.pos,
                                    maxpos |-> r.maxpos])
    /\ op' = "push"
    /\ ret' = <<>>
    /\ UNCHANGED <<alive, error, _maxsize, _def, args>>

\* Mutant of MaxDiff: the query steps the maximum cursor (return *_maxpos++).
MaxDiff_Advances ==
    /\ alive /\ ~ub
    /\ LET r == maxDiff(history, _maxsize, _def, _maxpos)
       IN  /\ ub' = r.oob
           /\ IF r.oob
              THEN \E v \in Values \cup Defaults : ret' = <<v>>
              ELSE ret' = <<r.val>>
    /\ op' = "maxDiff"
    /\ _maxpos' = IF Len(history) < _maxsize \/ _maxpos + 1 >= Len(history)
                  THEN _maxpos ELSE _maxpos + 1
    /\ UNCHANGED <<alive, error, _maxsize, _def, history, _pos, pushed, args, log>>

\* A call of maxDiff().  When it dereferences an iterator that designates no
\* element, the value it returns is arbitrary.
MaxDiff ==
    /\ alive /\ ~ub
    /\ LET r == maxDiff(history, _maxsize, _def, _maxpos)
       IN  /\ ub' = r.oob
           /\ IF r.oob
              THEN \E v \in Values \cup Defaults : ret' = <<v>>
              ELSE ret' = <<r.val>>
    /\ op' = "maxDiff"
    /\ UNCHANGED <<alive, error, _maxsize, _def, history, _pos, _maxpos, pushed, args, log>>

Next == Push \/ MaxDiff

Spec == Init /\ [][Next]_vars

\* The same object under a caller that cannot stop pushing: every loop
\* iteration of the iterative algorithms calls push once.
FairSpec == Spec /\ WF_vars(Push)

\* ------------------------------------------------------------- NaN samples
\* A call of push(NaN).
PushNaN ==
    /\ alive /\ ~ub
    /\ Len(pushed) < MaxPushes
    /\ LET r == push(history, _maxsize, _pos, _maxpos, NaN)
       IN  /\ history' = r.hist
           /\ _pos' = r.pos
           /\ _maxpos' = r.maxpos
           /\ ub' = r.oob
           /\ pushed' = Append(pushed, NaN)
           /\ log' = Append(log, [rescan |-> r.rescan, pos |-> r.pos,
                                   maxpos |-> r.maxpos])
    /\ op' = "push"
    /\ ret' = <<>>
    /\ UNCHANGED <<alive, error, _maxsize, _def, args>>

NextNaN == Push \/ PushNaN \/ MaxDiff

\* The monitor under a caller whose samples may be NaN.
SpecNaN == Init /\ [][NextNaN]_vars

\* ------------------------------------------------------------- std::vector members
\* Diffs derives publicly from std::vector<Real>, so the members of the base
\* class are callable on a Diffs object.  They know nothing of _pos and
\* _maxpos, which keep their offsets.

\* A call of std::vector<Real>::pop_back(); undefined on an empty vector.
PopBack ==
    /\ alive /\ ~ub
    /\ IF Len(history) = 0
       THEN ub' = TRUE /\ history' = history
       ELSE ub' = FALSE /\ history' = SubSeq(history, 1, Len(history) - 1)
    /\ op' = "pop_back"
    /\ ret' = <<>>
    /\ UNCHANGED <<alive, error, _maxsize, _def, _pos, _maxpos, pushed, args, log>>

\* A call of std::vector<Real>::clear().
Clear ==
    /\ alive /\ ~ub
    /\ history' = <<>>
    /\ op' = "clear"
    /\ ret' = <<>>
    /\ UNCHANGED <<alive, error, _maxsize, _def, _pos, _maxpos, ub, pushed, args, log>>

NextVector == Push \/ MaxDiff \/ PopBack \/ Clear

\* The monitor under a caller that also uses the inherited members.
SpecVector == Init /\ [][NextVector]_vars

\* ------------------------------------------------------------- construction
\* Before the constructor is called.
InitConstruct ==
    /\ alive = FALSE
    /\ error = "none"
    /\ _maxsize = 0
    /\ _def = 0
    /\ history = <<>>
    /\ _pos = 0
    /\ _maxpos = 0
    /\ op = "none"
    /\ ret = <<>>
    /\ ub = FALSE
    /\ pushed = <<>>
    /\ log = <<>>
    /\ args = [maxsize |-> 0, def |-> 0]

\* A call of Diffs(n, d) with any long n, valid or not.
Construct ==
    /\ op = "none"
    /\ \E n \in CtorSizes, d \in Defaults :
        LET c == Constructor(n, d)
        IN  /\ alive' = c.alive
            /\ error' = c.error
            /\ _maxsize' = c.maxsize
            /\ _def' = c.def
            /\ history' = c.hist
            /\ _pos' = c.pos
            /\ _maxpos' = c.maxpos
            /\ args' = [maxsize |-> n, def |-> d]
    /\ op' = "new"
    /\ UNCHANGED <<ret, ub, pushed, log>>

NextConstruct == Construct \/ Push \/ MaxDiff

SpecConstruct == InitConstruct /\ [][NextConstruct]_vars

\* ------------------------------------------------------------- properties
\* The window: the last _maxsize arguments of push (all of them while fewer
\* have been pushed).
Window ==
    IF Len(pushed) <= _maxsize THEN pushed
    ELSE SubSeq(pushed, Len(pushed) - _maxsize + 1, Len(pushed))

\* The values of a sequence.
Range(s) == {s[i] : i \in 1 .. Len(s)}

\* The maximum of a non-empty sequence, recomputed over all its values.
RefMax(s) == CHOOSE v \in Range(s) : \A w \in Range(s) : w <= v

Filling == Len(history) < _maxsize
Full == Len(history) = _maxsize

\* C1: on a monitor of capacity >= 1, maxDiff() called after the capacity-th
\* or any later push returns exactly the maximum of the last `capacity`
\* arguments of push.
C1_SlidingWindowMax ==
    (op = "maxDiff" /\ _maxsize >= 1 /\ Len(pushed) >= _maxsize)
        => ret = <<RefMax(Window)>>

\* C1 witness: maxDiff() has answered after the overall largest sample left
\* the window, so the answer is smaller than a value pushed earlier.
C1_Witness ==
    /\ op = "maxDiff"
    /\ _maxsize >= 2
    /\ Len(pushed) > _maxsize
    /\ ret = <<RefMax(Window)>>
    /\ RefMax(pushed) > RefMax(Window)

\* C2: maxDiff() returns _def on a fresh monitor and after each of the first
\* capacity-1 pushes, whatever was pushed; from the capacity-th push on it
\* returns a value that was pushed and is still in the window.
C2_MonotonicFill ==
    op = "maxDiff" =>
        /\ Len(pushed) < args.maxsize => ret = <<_def>>
        /\ Len(pushed) >= args.maxsize => (Len(ret) = 1 /\ ret[1] \in Range(Window))

\* C2 witness: maxDiff() has answered right after the capacity-th push of a
\* monitor whose default value is itself a sample, with another value.
C2_Witness ==
    /\ op = "maxDiff"
    /\ Len(pushed) = args.maxsize
    /\ _def \in Values
    /\ _def \notin Range(Window)
    /\ ret # <<_def>>

\* C3 (stated as claimed): a constructor call with maxsize < 1 ends with an
\* InvalidArgument error and leaves no object.
C3_InvalidArgument ==
    (op # "none" /\ args.maxsize < 1) => (error = "InvalidArgument" /\ ~alive)

\* C4: on a monitor of capacity >= 1 no call dereferences an iterator that
\* designates no element: no undefined access has happened, _maxpos
\* designates an element whenever the vector is not empty, and on a full
\* window the slot the next push writes (the wrapped _pos) is an element.
C4_CursorsInRange ==
    (alive /\ args.maxsize >= 1) =>
        /\ ~ub
        /\ Len(history) > 0 => InRange(history, _maxpos)
        /\ Full => InRange(history, wrap(history, _pos))

\* C4 witness: push and maxDiff have run on a full window whose write cursor
\* has reached end() for the second time.
C4_Witness ==
    /\ op = "maxDiff"
    /\ Len(pushed) = 2 * _maxsize
    /\ _pos = Len(history)
    /\ InRange(history, _maxpos)
    /\ ~ub

\* C5: 0 <= size() <= capacity always; a push on a filling window makes the
\* vector one longer and a push on a full window keeps its length.
C5_LengthBounded ==
    /\ [](Len(history) >= 0 /\ Len(history) <= args.maxsize)
    /\ [][pushed' # pushed =>
            /\ Filling => Len(history') = Len(history) + 1
            /\ Full => Len(history') = Len(history)
            /\ Len(history') >= Len(history)]_vars

\* C5 witness: a push has been made on a window that was already full.
C5_Witness ==
    /\ op = "push"
    /\ Len(pushed) > _maxsize
    /\ Len(history) = _maxsize

\* C6: the monitor is Filling exactly until the capacity-th push and Full from
\* then on; no step leaves Full; under repeated pushes Full is reached.
C6_TwoStateMachine ==
    /\ [](Filling <=> Len(pushed) < args.maxsize)
    /\ [](Full <=> Len(pushed) >= args.maxsize)
    /\ [][Full => Full']_vars
    /\ <>Full

\* C6 witness: the monitor is Full and has been pushed to since it became so.
C6_Witness ==
    /\ Full
    /\ op = "push"
    /\ Len(pushed) > args.maxsize

\* C7: a maxDiff() call changes neither the vector nor a cursor nor _maxsize
\* nor _def, and a maxDiff() call that follows a maxDiff() call returns what
\* that one returned.
C7_PureQuery ==
    [][op' = "maxDiff" =>
            /\ UNCHANGED <<history, _pos, _maxpos, _maxsize, _def>>
            /\ op = "maxDiff" => ret' = ret]_vars

\* C7 witness: maxDiff() has answered on a full window.
C7_Witness ==
    /\ op = "maxDiff"
    /\ Full
    /\ ret = <<At(history, _maxpos)>>

\* C8: after any calls of push and maxDiff, maxSize() is the capacity given
\* to the constructor and maxDiff() on a filling window returns the default
\* value given to the constructor.
C8_Immutable ==
    alive =>
        /\ maxSize(_maxsize) = args.maxsize
        /\ _def = args.def
        /\ (op = "maxDiff" /\ Len(pushed) < args.maxsize) => ret = <<args.def>>

\* C8 witness: pushes on a full window and a maxDiff() call have been made.
C8_Witness ==
    /\ op = "maxDiff"
    /\ Len(pushed) > args.maxsize
    /\ maxSize(_maxsize) = args.maxsize

\* The example of C9: capacity 3, default -1, pushes 5, 2, 9, 1, 1.
Trace9 == <<5, 2, 9, 1, 1>>
InTrace9 ==
    /\ args = [maxsize |-> 3, def |-> -1]
    /\ op = "maxDiff"
    /\ Len(pushed) >= 1
    /\ Len(pushed) <= Len(Trace9)
    /\ pushed = SubSeq(Trace9, 1, Len(pushed))

\* C9 (stated as claimed): maxDiff() after each push of the example returns
\* -1, -1, 9, 9, 2.
C9_AsClaimed == InTrace9 => ret = << <<-1, -1, 9, 9, 2>>[Len(pushed)] >>

\* C9 (amended): maxDiff() after each push of the example returns
\* -1, -1, 9, 9, 9.
C9_ExampleTrace == InTrace9 => ret = << <<-1, -1, 9, 9, 9>>[Len(pushed)] >>

\* C9 witness: maxDiff() has answered after the fifth push of the example.
C9_Witness == InTrace9 /\ Len(pushed) = 5 /\ ret = <<9>>

\* The example of C10: capacity 2, any default d, pushes 4, 4, 4, 4.
Trace10 == <<4, 4, 4, 4>>
InTrace10 ==
    /\ args.maxsize = 2
    /\ op = "maxDiff"
    /\ Len(pushed) >= 1
    /\ Len(pushed) <= Len(Trace10)
    /\ pushed = SubSeq(Trace10, 1, Len(pushed))

\* C10 (stated as claimed): maxDiff() after each push of the example returns
\* d, d, 4, 4.
C10_AsClaimed == InTrace10 => ret = << <<args.def, args.def, 4, 4>>[Len(pushed)] >>

\* C10 (amended): maxDiff() after each push of the example returns
\* d, 4, 4, 4.
C10_ExampleTrace == InTrace10 => ret = << <<args.def, 4, 4, 4>>[Len(pushed)] >>

\* C10 witness: maxDiff() has answered 4 after the second push of the
\* example on a monitor whose default is not 4.
C10_Witness == InTrace10 /\ Len(pushed) = 2 /\ args.def # 4 /\ ret = <<4>>

\* ------------------------------------------------------------- push by push
\* The argument of the push call a step makes.
Pushing == pushed' # pushed
NewX == pushed'[Len(pushed')]

\* The slot a push on a full window writes.
Target == wrap(history, _pos)

\* The number of the push call that last wrote slot i of a full window, when
\* the j-th push after the fill writes slot (j-1) mod capacity.
SlotPush(i) == Len(pushed) - ((Len(pushed) - 1 - i) % _maxsize)

\* The record of the last push call.
LastLog == log[Len(log)]

\* Slot m of h holds the largest value of h and no slot before it does.
LowestMax(h, m) ==
    /\ InRange(h, m)
    /\ At(h, m) = RefMax(h)
    /\ \A i \in 0 .. m - 1 : At(h, i) < At(h, m)

\* C11: the j-th push on a full window overwrites exactly slot
\* (j-1) mod capacity; so on a full window every slot holds the value of the
\* latest push that maps to it, i.e. the vector holds exactly the last
\* `capacity` pushed values.
C11_FifoOverwrite ==
    /\ [][(Pushing /\ Full) =>
            history' = Store(history, (Len(pushed') - _maxsize - 1) % _maxsize, NewX)]_vars
    /\ [](Len(pushed) >= _maxsize =>
            /\ Full
            /\ \A i \in 0 .. _maxsize - 1 : At(history, i) = pushed[SlotPush(i)])

\* C11 witness: on a window of capacity >= 2 the write cursor has gone round
\* once and overwritten slot 0 a second time.
C11_Witness ==
    /\ op = "push"
    /\ _maxsize >= 2
    /\ Len(pushed) = 2 * _maxsize + 1
    /\ _pos = 1
    /\ At(history, 0) = pushed[Len(pushed)]

\* C12: up to and including the push that fills the window, _maxpos
\* designates the largest value appended so far, the earliest-appended one
\* among equals; a push of a value equal to the current maximum leaves
\* _maxpos where it is.
C12_FillingMax ==
    /\ []((Len(pushed) >= 1 /\ Len(pushed) <= _maxsize) => LowestMax(history, _maxpos))
    /\ [][(Pushing /\ Filling /\ Len(history) >= 1 /\ NewX = At(history, _maxpos))
            => _maxpos' = _maxpos]_vars

\* C12 witness: the window has just been filled, its maximum occurs twice
\* and _maxpos designates the first occurrence, which is not slot 0.
C12_Witness ==
    /\ op = "push"
    /\ Len(pushed) = _maxsize
    /\ _maxpos >= 1
    /\ \E i \in _maxpos + 1 .. Len(history) - 1 : At(history, i) = At(history, _maxpos)

\* The number of slots between the slot the next push writes and the slot
\* _maxpos designates, as push call e left them.
Dist(e) == (e.maxpos - (IF e.pos = _maxsize THEN 0 ELSE e.pos)) % _maxsize

\* C13 (stated as claimed): two pushes that rescan are at least `capacity`
\* pushes apart.
C13_AsClaimed ==
    \A i, j \in 1 .. Len(log) :
        (i < j /\ log[i].rescan /\ log[j].rescan) => j - i >= _maxsize

\* C13 (amended): a push that rescans and leaves _maxpos d slots ahead of the
\* write cursor (0 <= d < capacity) is not followed by a rescan within the
\* next d pushes; d may be 0.
C13_RescanSpacing ==
    \A i, j \in 1 .. Len(log) :
        (i < j /\ log[i].rescan /\ log[j].rescan) => j - i >= Dist(log[i]) + 1

\* C13 witness: on a window of capacity >= 2 two consecutive pushes rescanned.
C13_Witness ==
    /\ _maxsize >= 2
    /\ Len(log) >= 2
    /\ log[Len(log) - 1].rescan
    /\ LastLog.rescan
    /\ Dist(log[Len(log) - 1]) = 0

\* C14: a push rescans exactly when the window is full and the slot it
\* writes, the wrapped _pos, is the slot _maxpos designates.
C14_RescanIff ==
    [][Pushing => (log'[Len(log')].rescan <=> (Full /\ Target = _maxpos))]_vars

\* C14 witness: a push on a full window that did not rescan, right after one
\* that did.
C14_Witness ==
    /\ Len(pushed) > _maxsize + 1
    /\ Len(log) >= 2
    /\ log[Len(log) - 1].rescan
    /\ ~LastLog.rescan

\* C15 (stated as claimed): after a push on a full window _maxpos designates,
\* among the slots holding the maximum, the one pushed earliest.
C15_AsClaimed ==
    (Len(pushed) > _maxsize /\ Full) =>
        /\ InRange(history, _maxpos)
        /\ At(history, _maxpos) = RefMax(history)
        /\ \A i \in 0 .. Len(history) - 1 :
            At(history, i) = At(history, _maxpos) => SlotPush(_maxpos) <= SlotPush(i)

\* C15 (amended): after a push on a full window _maxpos designates a slot
\* holding the maximum; right after a rescanning push it is the lowest
\* storage index among such slots, and a non-rescanning push of a value equal
\* to the maximum leaves _maxpos where it is.
C15_TieBreak ==
    /\ []((Len(pushed) > _maxsize /\ Full) =>
            /\ InRange(history, _maxpos)
            /\ At(history, _maxpos) = RefMax(history)
            /\ LastLog.rescan => LowestMax(history, _maxpos))
    /\ [][(Pushing /\ Full /\ Target # _maxpos /\ NewX = At(history, _maxpos))
            => _maxpos' = _maxpos]_vars

\* C15 witness: after a rescanning push the maximum is held by two slots and
\* _maxpos designates the lower one, which was pushed later than the other.
C15_Witness ==
    /\ Len(pushed) > _maxsize
    /\ Full
    /\ LastLog.rescan
    /\ \E i \in _maxpos + 1 .. Len(history) - 1 :
        /\ At(history, i) = At(history, _maxpos)
        /\ SlotPush(i) < SlotPush(_maxpos)

\* C16: a rescanning push stores the new value in the target slot before the
\* rescan: afterwards the slot holds it and _maxpos designates the lowest
\* storage index among the slots of the updated vector that hold its maximum.
C16_RescanResult ==
    [][(Pushing /\ Full /\ Target = _maxpos) =>
            /\ log'[Len(log')].rescan
            /\ At(history', Target) = NewX
            /\ LowestMax(history', _maxpos')]_vars

\* C16 witness: a rescan selected the slot just written, whose new value ties
\* with a later slot.
C16_Witness ==
    /\ Len(pushed) > _maxsize
    /\ LastLog.rescan
    /\ _maxpos = _pos - 1
    /\ \E i \in _maxpos + 1 .. Len(history) - 1 : At(history, i) = At(history, _maxpos)

\* C17: a push on a full window whose target is not the slot _maxpos
\* designates moves _maxpos to the target when x is strictly greater than
\* *_maxpos and leaves it otherwise; only the target slot of the vector changes.
C17_NonRescanBranch ==
    [][(Pushing /\ Full /\ Target # _maxpos) =>
            /\ NewX > At(history, _maxpos) => _maxpos' = Target
            /\ NewX <= At(history, _maxpos) => _maxpos' = _maxpos
            /\ history' = Store(history, Target, NewX)
            /\ \A i \in 0 .. Len(history) - 1 :
                i # Target => At(history', i) = At(history, i)]_vars

\* C17 witness: a non-rescanning push of a larger value has moved _maxpos to
\* the slot it wrote.
C17_Witness ==
    /\ Len(pushed) > _maxsize
    /\ ~LastLog.rescan
    /\ _maxpos = _pos - 1
    /\ \A i \in 0 .. Len(history) - 1 : i # _maxpos => At(history, i) < At(history, _maxpos)

\* C20: on a monitor of capacity 1, after every push the vector holds the
\* value just pushed in slot 0, which both cursors have just designated,
\* maxDiff() returns that value, and every push but the first rescanned.
C20_CapacityOne ==
    (args.maxsize = 1 /\ Len(pushed) >= 1) =>
        /\ history = <<pushed[Len(pushed)]>>
        /\ _maxpos = 0
        /\ _pos - 1 = 0
        /\ op = "maxDiff" => ret = <<pushed[Len(pushed)]>>
        /\ ~log[1].rescan
        /\ \A i \in 2 .. Len(log) : log[i].rescan

\* C20 witness: maxDiff() has answered on a monitor of capacity 1 after a
\* push of a smaller value than the one before.
C20_Witness ==
    /\ args.maxsize = 1
    /\ Len(pushed) >= 3
    /\ pushed[Len(pushed)] < pushed[Len(pushed) - 1]
    /\ op = "maxDiff"
    /\ ret = <<pushed[Len(pushed)]>>
    /\ LastLog.rescan

\* C18 (stated as claimed): while the window holds a value that is not NaN,
\* the value _maxpos designates is not NaN and maxDiff() does not return NaN.
C18_NaNPolicy ==
    (Len(history) >= 1 /\ \E i \in 0 .. Len(history) - 1 : At(history, i) # NaN) =>
        /\ InRange(history, _maxpos)
        /\ At(history, _maxpos) # NaN
        /\ op = "maxDiff" => ret # <<NaN>>

\* C19 (stated as claimed): whatever public members are called, the vector
\* is what the push calls made it: it holds min(pushes, capacity) values and
\* _maxpos designates its maximum.
C19_OnlyPushMutates ==
    (alive /\ ~ub) =>
        /\ Len(history) = (IF Len(pushed) < _maxsize THEN Len(pushed) ELSE _maxsize)
        /\ Len(history) >= 1 =>
            /\ InRange(history, _maxpos)
            /\ At(history, _maxpos) = RefMax(history)

====
